---- MODULE Spec2Model ----
(***************************************************************************)
(* vCard2PDF: a model of src/vCard2PDF.py.                                 *)
(*                                                                         *)
(* Text is modelled as a sequence of one-character strings, so that the    *)
(* splitting, trimming, unescaping and case conversion of the program are  *)
(* computed as the program computes them.  An optional value (None or a    *)
(* value) is the empty tuple or a one-element tuple.  Vertical offsets are *)
(* kept in units of 1/127 pt, in which the A4 page height (297 mm) is the  *)
(* integer 106920.                                                         *)
(***************************************************************************)
EXTENDS Integers, Sequences, FiniteSets, TLC

VARIABLES pc, text, vcard, canvas, files, done, out, params, kind, outcome

vars == <<pc, text, vcard, canvas, files, done, out, params, kind, outcome>>

(***************************************************************************)
(* Strings                                                                 *)
(***************************************************************************)
None == <<>>

Some(v) == <<v>>

\* Python truthiness of an optional string / bytes / list value
Truthy(o) == o # <<>> /\ o[1] # <<>>

LowerAlpha == <<"a","b","c","d","e","f","g","h","i","j","k","l","m",
                "n","o","p","q","r","s","t","u","v","w","x","y","z">>

UpperAlpha == <<"A","B","C","D","E","F","G","H","I","J","K","L","M",
                "N","O","P","Q","R","S","T","U","V","W","X","Y","Z">>

UpperC(c) == IF \E k \in 1..26 : LowerAlpha[k] = c
             THEN UpperAlpha[CHOOSE k \in 1..26 : LowerAlpha[k] = c]
             ELSE c

LowerC(c) == IF \E k \in 1..26 : UpperAlpha[k] = c
             THEN LowerAlpha[CHOOSE k \in 1..26 : UpperAlpha[k] = c]
             ELSE c

Upper(s) == [k \in 1..Len(s) |-> UpperC(s[k])]

Lower(s) == [k \in 1..Len(s) |-> LowerC(s[k])]

Whitespace == {" ", "\t", "\n"}

\* the loops of the program: acc = Op(acc, s[k]) for k = lo..hi in order (the
\* first half is evaluated before the second one starts from its result)
RECURSIVE FoldRange(_, _, _, _, _)
FoldRange(Op(_, _), acc, s, lo, hi) ==
    IF lo > hi THEN acc
    ELSE IF lo = hi THEN Op(acc, s[lo])
    ELSE LET mid == (lo + hi) \div 2
             left == FoldRange(Op, acc, s, lo, mid) IN
         IF left = left THEN FoldRange(Op, left, s, mid + 1, hi) ELSE acc

Fold(Op(_, _), acc, s) == FoldRange(Op, acc, s, 1, Len(s))

Indices(s) == [k \in 1..Len(s) |-> k]

LStrip(s) == IF \A k \in 1..Len(s) : s[k] \in Whitespace THEN <<>>
             ELSE SubSeq(s, CHOOSE k \in 1..Len(s) :
                               s[k] \notin Whitespace
                               /\ \A j \in 1..(k - 1) : s[j] \in Whitespace,
                         Len(s))

RStrip(s) == IF \A k \in 1..Len(s) : s[k] \in Whitespace THEN <<>>
             ELSE SubSeq(s, 1, CHOOSE k \in 1..Len(s) :
                                  s[k] \notin Whitespace
                                  /\ \A j \in (k + 1)..Len(s) : s[j] \in Whitespace)

Strip(s) == RStrip(LStrip(s))

\* str.rstrip(ch)
RStripChar(s, ch) == IF \A k \in 1..Len(s) : s[k] = ch THEN <<>>
                     ELSE SubSeq(s, 1, CHOOSE k \in 1..Len(s) :
                                          s[k] # ch /\ \A j \in (k + 1)..Len(s) : s[j] = ch)

\* index of the first occurrence of ch in s, 0 when absent
IndexOf(s, ch) == IF \E k \in 1..Len(s) : s[k] = ch
                  THEN CHOOSE k \in 1..Len(s) :
                          s[k] = ch /\ \A j \in 1..(k - 1) : s[j] # ch
                  ELSE 0

\* str.split(ch): the pieces between the occurrences of ch, at least one
Split(s, ch) ==
    LET is_sep(k) == s[k] = ch
        seps == SelectSeq(Indices(s), is_sep)
        from(j) == IF j = 1 THEN 1 ELSE seps[j - 1] + 1
        to(j) == IF j = Len(seps) + 1 THEN Len(s) ELSE seps[j] - 1 IN
    [j \in 1..(Len(seps) + 1) |-> SubSeq(s, from(j), to(j))]

StartsWith(s, p) == Len(s) >= Len(p) /\ SubSeq(s, 1, Len(p)) = p

EndsWith(s, p) == Len(s) >= Len(p) /\ SubSeq(s, Len(s) - Len(p) + 1, Len(s)) = p

\* Python's "p in s" for strings
Contains(s, p) == \E k \in 1..(Len(s) - Len(p) + 1) : SubSeq(s, k, k + Len(p) - 1) = p

\* str.replace of the two-character sequence <<a, b>> by the character r, for
\* a # b (occurrences of such a sequence cannot overlap)
Replace2(s, a, b, r) ==
    LET starts(k) == k < Len(s) /\ s[k] = a /\ s[k + 1] = b
        kept(k) == ~(k > 1 /\ starts(k - 1))
        idx == SelectSeq([k \in 1..Len(s) |-> k], kept) IN
    [j \in 1..Len(idx) |-> IF starts(idx[j]) THEN r ELSE s[idx[j]]]

\* sep.join(ls)
Join(ls, sep) == LET add(acc, k) == IF k = 1 THEN ls[k] ELSE acc \o sep \o ls[k] IN
                 Fold(add, <<>>, Indices(ls))

\* str.splitlines() on text whose only line break is "\n"
splitlines(t) == LET p == Split(t, "\n") IN
                 IF p[Len(p)] = <<>> THEN SubSeq(p, 1, Len(p) - 1) ELSE p

(***************************************************************************)
(* base64.b64decode(value), non-strict: characters outside the alphabet    *)
(* are skipped, a complete pad sequence ends the input, dangling data      *)
(* characters raise.                                                       *)
(***************************************************************************)
B64Alphabet == <<"A","B","C","D","E","F","G","H","I","J","K","L","M",
                 "N","O","P","Q","R","S","T","U","V","W","X","Y","Z",
                 "a","b","c","d","e","f","g","h","i","j","k","l","m",
                 "n","o","p","q","r","s","t","u","v","w","x","y","z",
                 "0","1","2","3","4","5","6","7","8","9","+","/">>

IsB64(c) == \E k \in 1..64 : B64Alphabet[k] = c

B64Val(c) == (CHOOSE k \in 1..64 : B64Alphabet[k] = c) - 1

\* one character of the decoding loop
a2b_step(d, ch) ==
    IF d.stop THEN d
    ELSE IF ch = "="
    THEN IF d.quad_pos >= 2 /\ d.quad_pos + d.pads + 1 >= 4
         THEN [d EXCEPT !.stop = TRUE, !.quad_pos = 0]
         ELSE IF d.quad_pos >= 2 THEN [d EXCEPT !.pads = @ + 1] ELSE d
    ELSE IF ~IsB64(ch) THEN d
    ELSE LET v == B64Val(ch) IN
         CASE d.quad_pos = 0 ->
                [d EXCEPT !.quad_pos = 1, !.leftchar = v, !.pads = 0]
           [] d.quad_pos = 1 ->
                [d EXCEPT !.quad_pos = 2, !.leftchar = v % 16, !.pads = 0,
                          !.bin = Append(@, d.leftchar * 4 + (v \div 16))]
           [] d.quad_pos = 2 ->
                [d EXCEPT !.quad_pos = 3, !.leftchar = v % 4, !.pads = 0,
                          !.bin = Append(@, d.leftchar * 16 + (v \div 4))]
           [] d.quad_pos = 3 ->
                [d EXCEPT !.quad_pos = 0, !.leftchar = 0, !.pads = 0,
                          !.bin = Append(@, d.leftchar * 64 + v)]

\* ok is FALSE when the decoder raises (data characters left over)
b64decode(value) ==
    LET d == Fold(a2b_step, [quad_pos |-> 0, leftchar |-> 0, pads |-> 0,
                             bin |-> <<>>, stop |-> FALSE], value) IN
    IF d.quad_pos # 0 THEN [ok |-> FALSE, bytes |-> <<>>]
    ELSE [ok |-> TRUE, bytes |-> d.bin]

(***************************************************************************)
(* parse_vcard                                                             *)
(***************************************************************************)
EmptyData == [FN |-> None, ORG |-> None, DEPT |-> None, TITLE |-> None,
              TEL |-> <<>>, EMAIL |-> <<>>, ADR |-> <<>>, URL |-> <<>>,
              NOTE |-> <<>>, SOCIAL |-> <<>>, PHOTO |-> None,
              VERSION |-> None, PRODID |-> None]

\* lines 47-54: one physical line
unfold_line(unfolded, line) ==
    IF Strip(line) = <<>> THEN unfolded
    ELSE IF line[1] \in {" ", "\t"} /\ unfolded # <<>>
    THEN [unfolded EXCEPT ![Len(unfolded)] = @ \o Tail(line)]
    ELSE Append(unfolded, RStripChar(line, "\n"))

unfold(raw_lines) == Fold(unfold_line, <<>>, raw_lines)

unescape(s) ==
    Replace2(Replace2(Replace2(Replace2(s, "\\", "n", "\n"),
                               "\\", "N", "\n"),
                      "\\", ",", ","),
             "\\", ";", ";")

\* lines 68-76: one piece after the key
add_param(ps, piece) ==
    LET p == Strip(piece)
        k == IndexOf(p, "=") IN
    IF p = <<>> THEN ps
    ELSE IF k # 0 THEN Append(ps, Upper(SubSeq(p, k + 1, Len(p))))
    ELSE Append(ps, Upper(p))

\* lines 64-77
split_key_and_params(key_part) ==
    LET pieces == Split(key_part, ";") IN
    [base |-> Upper(pieces[1]), params |-> Fold(add_param, <<>>, Tail(pieces))]

K_FN == <<"F","N">>
K_ORG == <<"O","R","G">>
K_TITLE == <<"T","I","T","L","E">>
K_TEL == <<"T","E","L">>
K_EMAIL == <<"E","M","A","I","L">>
K_ADR == <<"A","D","R">>
K_URL == <<"U","R","L">>
K_DOTURL == <<".","U","R","L">>
K_NOTE == <<"N","O","T","E">>
K_SOCIAL == <<"X","-","S","O","C","I","A","L","P","R","O","F","I","L","E">>
K_PHOTO == <<"P","H","O","T","O">>
K_VERSION == <<"V","E","R","S","I","O","N">>
K_PRODID == <<"P","R","O","D","I","D">>

\* lines 90-96
set_org(data, value) ==
    LET org_clean == RStripChar(value, ";")
        parts == Split(org_clean, ";") IN
    [data EXCEPT !.ORG = Some(parts[1]),
                 !.DEPT = IF Len(parts) > 1 /\ Strip(parts[2]) # <<>>
                          THEN Some(Strip(parts[2])) ELSE @]

\* set_photo with a failed decode clearing the payload
set_photo_clearing(data, value) ==
    LET r == b64decode(value) IN
    IF r.ok THEN [data EXCEPT !.PHOTO = Some(r.bytes)] ELSE [data EXCEPT !.PHOTO = None]

\* lines 112-116: a decode that raises leaves the payload as it was
set_photo(data, value) ==
    LET r == b64decode(value) IN
    IF r.ok THEN [data EXCEPT !.PHOTO = Some(r.bytes)] ELSE data

\* lines 80-126: one logical line
handle_line(data, line) ==
    LET c == IndexOf(line, ":") IN
    IF c = 0 THEN data
    ELSE LET kp == split_key_and_params(SubSeq(line, 1, c - 1))
             key == kp.base
             value == Strip(SubSeq(line, c + 1, Len(line)))
             entry == [value |-> value, params |-> kp.params] IN
         CASE key = K_FN -> IF ~Truthy(data.FN) THEN [data EXCEPT !.FN = Some(value)]
                            ELSE data
           [] key = K_ORG -> IF ~Truthy(data.ORG) THEN set_org(data, value) ELSE data
           [] key = K_TITLE -> IF ~Truthy(data.TITLE)
                               THEN [data EXCEPT !.TITLE = Some(value)] ELSE data
           [] key = K_TEL -> [data EXCEPT !.TEL = Append(@, entry)]
           [] key = K_EMAIL -> [data EXCEPT !.EMAIL = Append(@, entry)]
           [] key = K_ADR ->
                [data EXCEPT !.ADR = Append(@, [entry EXCEPT !.value = unescape(value)])]
           [] key = K_URL \/ EndsWith(key, K_DOTURL) ->
                [data EXCEPT !.URL = Append(@, entry)]
           [] key = K_NOTE -> [data EXCEPT !.NOTE = Append(@, unescape(value))]
           [] key = K_SOCIAL -> [data EXCEPT !.SOCIAL = Append(@, entry)]
           [] key = K_PHOTO -> set_photo(data, value)
           [] key = K_VERSION -> [data EXCEPT !.VERSION = Some(value)]
           [] key = K_PRODID -> [data EXCEPT !.PRODID = Some(value)]
           [] OTHER -> data

parse_lines(unfolded) == Fold(handle_line, EmptyData, unfolded)

logical_lines(t) == unfold(splitlines(t))

\* lines 21-128
parse_vcard(t) == parse_lines(logical_lines(t))

(***************************************************************************)
(* build_pdf.  The canvas is the sequence of calls the drawing backend     *)
(* receives.  A drawString call records the column it is drawn at (the     *)
(* left margin, the column after the bullet, or the value column           *)
(* x_margin + global_label_width + 6), the vertical offset, the text (lit  *)
(* for text fixed by the program, text for text of the record) and the     *)
(* call site (row).  Umlauts of the program's labels are transliterated.   *)
(***************************************************************************)
Scale == 127

\* height of A4 (297 mm = 297 * 72 / 25.4 pt) in units of 1/127 pt
PageHeight == 106920

TopY == PageHeight - 60 * Scale

MinY == 70 * Scale

Leading == 14 * Scale

section_spacing == 24 * Scale

footer_y == 30 * Scale

ShowPage == [op |-> "showPage", x |-> "", y |-> 0, lit |-> "", text |-> <<>>,
             row |-> ""]

DrawString(x, y, lit, t, row) ==
    [op |-> "drawString", x |-> x, y |-> y, lit |-> lit, text |-> t, row |-> row]

LinkURL(url, y, handle) ==
    [op |-> "linkURL", x |-> "value", y |-> y, lit |-> "", text |-> url,
     row |-> "social"]

\* lines 188-192, with the threshold it is called with
page_check(st, min_y) ==
    IF st.y < min_y THEN [y |-> TopY, ops |-> Append(st.ops, ShowPage)] ELSE st

new_page_if_needed(st) == page_check(st, MinY)

\* lines 212-214
add_spacing(st, amount) == [st EXCEPT !.y = @ - amount]

\* one drawn row: the draw calls at the current offset, then the line advance
draw_row(st, calls) ==
    [y |-> st.y - Leading,
     ops |-> st.ops \o [k \in 1..Len(calls) |-> [calls[k] EXCEPT !.y = st.y]]]

\* lines 194-199
draw_heading(st, lit) ==
    draw_row(new_page_if_needed(st), <<DrawString("margin", 0, lit, <<>>, "heading")>>)

\* lines 201-210
draw_lines(st, t, row) ==
    LET draw_line(s, line) ==
            draw_row(new_page_if_needed(s), <<DrawString("margin", 0, "", line, row)>>) IN
    IF t = <<>> THEN st ELSE Fold(draw_line, st, Split(t, "\n"))

\* draw_label_paragraph with the page check made once per paragraph
draw_label_paragraph_once(st, label, lines, row) ==
    LET draw_line(s, idx) ==
            LET value == DrawString("value", 0, "", lines[idx], row) IN
            draw_row(s, IF idx = 1
                        THEN <<DrawString("margin", 0, label, <<>>, row), value>>
                        ELSE <<value>>) IN
    IF lines = <<>> THEN st
    ELSE Fold(draw_line, new_page_if_needed(st), Indices(lines))

\* lines 216-234
draw_label_paragraph(st, label, lines, row) ==
    LET draw_line(s, idx) ==
            LET value == DrawString("value", 0, "", lines[idx], row) IN
            draw_row(new_page_if_needed(s),
                     IF idx = 1
                     THEN <<DrawString("margin", 0, label, <<>>, row), value>>
                     ELSE <<value>>) IN
    IF lines = <<>> THEN st
    ELSE Fold(draw_line, new_page_if_needed(st), Indices(lines))

T_HTTP == <<"h","t","t","p",":","/","/">>
T_HTTPS == <<"h","t","t","p","s",":","/","/">>
T_WWW == <<"w","w","w",".">>
U_FACEBOOK == <<"h","t","t","p","s",":","/","/","w","w","w",".","f","a","c","e",
                "b","o","o","k",".","c","o","m","/">>
U_XING == <<"h","t","t","p","s",":","/","/","w","w","w",".","x","i","n","g",".",
            "c","o","m","/","p","r","o","f","i","l","e","/">>
U_LINKEDIN == <<"h","t","t","p","s",":","/","/","w","w","w",".","l","i","n","k",
                "e","d","i","n",".","c","o","m","/","i","n","/">>
U_INSTAGRAM == <<"h","t","t","p","s",":","/","/","w","w","w",".","i","n","s","t",
                 "a","g","r","a","m",".","c","o","m","/">>
U_TWITTER == <<"h","t","t","p","s",":","/","/","t","w","i","t","t","e","r",".",
               "c","o","m","/">>

\* build_social_url with an unknown network treated like Twitter
build_social_url_fallback(network, handle) ==
    LET h == Strip(handle) IN
    IF h = <<>> THEN None
    ELSE IF StartsWith(Lower(h), T_HTTP) \/ StartsWith(Lower(h), T_HTTPS) THEN Some(h)
    ELSE IF StartsWith(Lower(h), T_WWW) THEN Some(T_HTTPS \o h)
    ELSE CASE network = "FACEBOOK" -> Some(U_FACEBOOK \o h)
           [] network = "XING" -> Some(U_XING \o h)
           [] network = "LINKEDIN" -> Some(U_LINKEDIN \o h)
           [] network = "INSTAGRAM" -> Some(U_INSTAGRAM \o h)
           [] OTHER -> Some(U_TWITTER \o h)

\* lines 236-255; None when no URL can be built
build_social_url(network, handle) ==
    LET h == Strip(handle) IN
    IF h = <<>> THEN None
    ELSE IF StartsWith(Lower(h), T_HTTP) \/ StartsWith(Lower(h), T_HTTPS) THEN Some(h)
    ELSE IF StartsWith(Lower(h), T_WWW) THEN Some(T_HTTPS \o h)
    ELSE CASE network = "FACEBOOK" -> Some(U_FACEBOOK \o h)
           [] network = "XING" -> Some(U_XING \o h)
           [] network = "LINKEDIN" -> Some(U_LINKEDIN \o h)
           [] network = "INSTAGRAM" -> Some(U_INSTAGRAM \o h)
           [] network = "TWITTER" -> Some(U_TWITTER \o h)
           [] OTHER -> None

P_CELL == <<"C","E","L","L">>
P_MOBILE == <<"M","O","B","I","L","E">>
P_IPHONE == <<"I","P","H","O","N","E">>
P_MAIN == <<"M","A","I","N">>
P_WORK == <<"W","O","R","K">>
P_BUSINESS == <<"B","U","S","I","N","E","S","S">>
P_HOME == <<"H","O","M","E">>
P_PRIVATE == <<"P","R","I","V","A","T","E">>
P_FACEBOOK == <<"F","A","C","E","B","O","O","K">>
P_XING == <<"X","I","N","G">>
P_LINKEDIN == <<"L","I","N","K","E","D","I","N">>
P_INSTAGRAM == <<"I","N","S","T","A","G","R","A","M">>
P_TWITTER == <<"T","W","I","T","T","E","R">>

\* any(t in names for t in tokens)
any_in(tokens, names) == \E k \in 1..Len(tokens) : tokens[k] \in names

\* any(name in t for t in tokens)
any_contains(tokens, name) == \E k \in 1..Len(tokens) : Contains(tokens[k], name)

\* the class one token alone would give
token_class(t, k) ==
    IF k = "TEL"
    THEN IF t \in {P_CELL, P_MOBILE, P_IPHONE} THEN "MOBILE"
         ELSE IF t \in {P_MAIN, P_WORK, P_BUSINESS} THEN "WORK"
         ELSE IF t \in {P_HOME, P_PRIVATE} THEN "HOME"
         ELSE "OTHER"
    ELSE IF k \in {"EMAIL", "ADR", "URL"}
    THEN IF t \in {P_WORK, P_BUSINESS} THEN "WORK"
         ELSE IF t \in {P_HOME, P_PRIVATE} THEN "HOME"
         ELSE "OTHER"
    ELSE IF k = "SOCIAL"
    THEN IF Contains(t, P_FACEBOOK) THEN "FACEBOOK"
         ELSE IF Contains(t, P_XING) THEN "XING"
         ELSE IF Contains(t, P_LINKEDIN) THEN "LINKEDIN"
         ELSE IF Contains(t, P_INSTAGRAM) THEN "INSTAGRAM"
         ELSE IF Contains(t, P_TWITTER) THEN "TWITTER"
         ELSE "OTHER"
    ELSE "OTHER"

\* classify_from_params deciding by the first token that matches a rule
classify_first_token(ps, k) ==
    LET hit(t) == token_class(Upper(t), k) # "OTHER"
        hits == SelectSeq(ps, hit) IN
    IF hits = <<>> THEN "OTHER" ELSE token_class(Upper(hits[1]), k)

\* lines 257-285
classify_from_params(ps, k) ==
    LET tokens == [j \in 1..Len(ps) |-> Upper(ps[j])] IN
    IF k = "TEL"
    THEN IF any_in(tokens, {P_CELL, P_MOBILE, P_IPHONE}) THEN "MOBILE"
         ELSE IF any_in(tokens, {P_MAIN, P_WORK, P_BUSINESS}) THEN "WORK"
         ELSE IF any_in(tokens, {P_HOME, P_PRIVATE}) THEN "HOME"
         ELSE "OTHER"
    ELSE IF k \in {"EMAIL", "ADR", "URL"}
    THEN IF any_in(tokens, {P_WORK, P_BUSINESS}) THEN "WORK"
         ELSE IF any_in(tokens, {P_HOME, P_PRIVATE}) THEN "HOME"
         ELSE "OTHER"
    ELSE IF k = "SOCIAL"
    THEN IF any_contains(tokens, P_FACEBOOK) THEN "FACEBOOK"
         ELSE IF any_contains(tokens, P_XING) THEN "XING"
         ELSE IF any_contains(tokens, P_LINKEDIN) THEN "LINKEDIN"
         ELSE IF any_contains(tokens, P_INSTAGRAM) THEN "INSTAGRAM"
         ELSE IF any_contains(tokens, P_TWITTER) THEN "TWITTER"
         ELSE "OTHER"
    ELSE "OTHER"

\* the WORK-phone flag kept from the call before
seen_work_kept == \E k \in 1..Len(canvas) : canvas[k].lit = "Zentrale:"

\* line 304: the WORK-phone flag of one build_pdf call starts cleared
seen_work_init == FALSE

\* lines 308-319
tel_label(k, seen_work) ==
    CASE k = "MOBILE" -> "Mobil"
      [] k = "WORK" -> IF ~seen_work THEN "Zentrale" ELSE "Geschaeftlich"
      [] k = "HOME" -> "Privat"
      [] OTHER -> ""

\* lines 305-320: the (label, value) pairs of the phone list
tel_entries(tel, seen_work0) ==
    LET add(acc, entry) ==
            LET k == classify_from_params(entry.params, "TEL") IN
            [seen_work |-> acc.seen_work \/ k = "WORK",
             entries |-> Append(acc.entries,
                                [label |-> tel_label(k, acc.seen_work),
                                 value |-> entry.value])] IN
    Fold(add, [seen_work |-> seen_work0, entries |-> <<>>], tel).entries

\* lines 346-351 and 408-413
plain_label(k) ==
    CASE k = "WORK" -> "Geschaeftlich"
      [] k = "HOME" -> "Privat"
      [] OTHER -> ""

labelled_entries(list, k) ==
    [j \in 1..Len(list) |->
        [label |-> plain_label(classify_from_params(list[j].params, k)),
         value |-> list[j].value]]

WithColon(label) == label \o ":"

\* lines 326-336 and 358-368: label and value, or the value alone at the margin
draw_entries(st, entries, row) ==
    LET draw_entry(s, e) ==
            draw_row(new_page_if_needed(s),
                     IF e.label # ""
                     THEN <<DrawString("margin", 0, WithColon(e.label), <<>>, row),
                            DrawString("value", 0, "", e.value, row)>>
                     ELSE <<DrawString("margin", 0, "", e.value, row)>>) IN
    Fold(draw_entry, st, entries)

\* lines 301-337
tel_section(st, v) ==
    IF v.TEL = <<>> THEN st
    ELSE add_spacing(draw_entries(draw_heading(st, "Telefon"),
                                  tel_entries(v.TEL, seen_work_init), "tel"),
                     section_spacing)

\* lines 339-369
email_section(st, v) ==
    IF v.EMAIL = <<>> THEN st
    ELSE add_spacing(
             draw_entries(draw_heading(st, IF Len(v.EMAIL) = 1 THEN "E-Mail"
                                           ELSE "E-Mail(s)"),
                          labelled_entries(v.EMAIL, "EMAIL"), "email"),
             section_spacing)

\* lines 384-394: the display lines of one address value
adr_lines(adr_value) ==
    LET parts == Split(adr_value, ";")
        street == IF Len(parts) > 2 THEN parts[3] ELSE <<>>
        city == IF Len(parts) > 3 THEN parts[4] ELSE <<>>
        postal == IF Len(parts) > 5 THEN parts[6] ELSE <<>>
        line1 == Strip(street)
        line2 == Strip(Strip(postal) \o <<" ">> \o Strip(city)) IN
    (IF line1 # <<>> THEN <<line1>> ELSE <<>>)
        \o (IF line2 # <<>> THEN <<line2>> ELSE <<>>)

\* lines 378-383
adr_label(k) ==
    CASE k = "WORK" -> "Geschaeftlich"
      [] k = "HOME" -> "Privat"
      [] OTHER -> "Adresse"

\* lines 375-397
draw_adrs(st, adrs) ==
    LET draw_adr(s, entry) ==
            add_spacing(
                draw_label_paragraph(
                    s, WithColon(adr_label(classify_from_params(entry.params, "ADR"))),
                    adr_lines(entry.value), "adr"),
                6 * Scale) IN
    Fold(draw_adr, st, adrs)

\* lines 371-398
adr_section(st, v) ==
    IF v.ADR = <<>> THEN st
    ELSE add_spacing(draw_adrs(draw_heading(st, IF Len(v.ADR) = 1 THEN "Adresse"
                                                ELSE "Adressen"),
                               v.ADR),
                     section_spacing)

\* lines 424-435
draw_urls(st, entries, single_url) ==
    LET draw_url(s, e) ==
            LET effective_label == IF e.label # "" THEN e.label
                                   ELSE IF single_url THEN "Homepage" ELSE "Website" IN
            draw_row(new_page_if_needed(s),
                     <<DrawString("margin", 0, WithColon(effective_label), <<>>, "url"),
                       DrawString("value", 0, "", e.value, "url")>>) IN
    Fold(draw_url, st, entries)

\* lines 400-437
url_section(st, v) ==
    IF v.URL = <<>> THEN st
    ELSE add_spacing(draw_urls(draw_heading(st, IF Len(v.URL) = 1 THEN "Website"
                                                ELSE "Website(s)"),
                               labelled_entries(v.URL, "URL"), Len(v.URL) = 1),
                     section_spacing)

\* lines 453-464
social_label(network) ==
    CASE network = "FACEBOOK" -> "Facebook"
      [] network = "XING" -> "XING"
      [] network = "LINKEDIN" -> "LinkedIn"
      [] network = "INSTAGRAM" -> "Instagram"
      [] network = "TWITTER" -> "Twitter"
      [] OTHER -> ""

\* line 452: the text after the last colon of the value
social_handle(value) == LET p == Split(value, ":") IN p[Len(p)]

\* lines 449-488
draw_socials(st, socials) ==
    LET draw_social(s, entry) ==
            LET network == classify_from_params(entry.params, "SOCIAL")
                handle == social_handle(entry.value)
                label == social_label(network)
                url == build_social_url(network, handle) IN
            draw_row(new_page_if_needed(s),
                     <<DrawString("margin", 0, "* ", <<>>, "social")>>
                         \o (IF label # ""
                             THEN <<DrawString("bullet", 0, WithColon(label), <<>>,
                                               "social")>>
                             ELSE <<>>)
                         \o <<DrawString("value", 0, "", handle, "social")>>
                         \o (IF url # None THEN <<LinkURL(url[1], 0, handle)>>
                             ELSE <<>>)) IN
    Fold(draw_social, st, socials)

\* lines 439-490
social_section(st, v) ==
    IF v.SOCIAL = <<>> THEN st
    ELSE add_spacing(draw_socials(draw_heading(st, "Social Media"), v.SOCIAL),
                     section_spacing)

draw_notes(st, notes) ==
    LET draw_note(s, note) == draw_lines(s, note, "note") IN
    Fold(draw_note, st, notes)

\* lines 492-496
note_section(st, v) ==
    IF v.NOTE = <<>> THEN st
    ELSE draw_notes(draw_heading(add_spacing(st, section_spacing), "Notizen"), v.NOTE)

\* lines 183-186: the title, the parsed name or else the source file's name
title_block(v, source_name) ==
    [y |-> TopY - Leading,
     ops |-> <<DrawString("margin", TopY, "",
                          IF Truthy(v.FN) THEN v.FN[1] ELSE source_name, "title")>>]

\* lines 287-299
org_block(st, v) ==
    LET s1 == IF Truthy(v.ORG) THEN draw_lines(st, v.ORG[1], "org") ELSE st
        s2 == IF Truthy(v.TITLE) \/ Truthy(v.DEPT) THEN add_spacing(s1, Leading) ELSE s1
        s3 == IF Truthy(v.TITLE)
              THEN draw_label_paragraph(s2, "Position:", <<v.TITLE[1]>>, "position")
              ELSE s2
        s4 == IF Truthy(v.DEPT)
              THEN draw_label_paragraph(s3, "Abteilung:", <<v.DEPT[1]>>, "position")
              ELSE s3 IN
    add_spacing(s4, section_spacing)

\* lines 498-512: credit, copyright and metadata lines of the last page
footer(st, v) ==
    [st EXCEPT !.ops =
        @ \o <<DrawString("margin", footer_y + 10 * Scale,
                          "Generiert durch vCard2PDF v1.0", <<>>, "footer"),
               DrawString("margin", footer_y, "(c) Fieber IT 2014 - year", <<>>,
                          "footer")>>
          \o (IF Truthy(v.VERSION) \/ Truthy(v.PRODID)
              THEN <<DrawString("right", footer_y, "meta",
                        (IF Truthy(v.VERSION) THEN v.VERSION[1] ELSE <<>>)
                            \o (IF Truthy(v.VERSION) /\ Truthy(v.PRODID)
                                THEN <<" ">> ELSE <<>>)
                            \o (IF Truthy(v.PRODID) THEN v.PRODID[1] ELSE <<>>),
                        "footer")>>
              ELSE <<>>)]

\* the blocks of build_pdf in the order it runs them
Blocks == <<"org", "tel", "email", "adr", "url", "social", "note", "footer">>

\* lines 131-514: the calls the canvas receives for one record
build_pdf(v, source_name) ==
    LET block(st, name) ==
            CASE name = "org" -> org_block(st, v)
              [] name = "tel" -> tel_section(st, v)
              [] name = "email" -> email_section(st, v)
              [] name = "adr" -> adr_section(st, v)
              [] name = "url" -> url_section(st, v)
              [] name = "social" -> social_section(st, v)
              [] name = "note" -> note_section(st, v)
              [] name = "footer" -> footer(st, v) IN
    Fold(block, title_block(v, source_name), Blocks).ops

(***************************************************************************)
(* main: one loop iteration per .vcf file of the directory                 *)
(***************************************************************************)
SeqsUpTo(S, n) == UNION {[1..k -> S] : k \in 0..n}

\* the names of the sorted *.vcf files, without the suffix
FileStems == << <<"a">>, <<"b">>, <<"c">>, <<"d">> >>

DOT_VCF == <<".","v","c","f">>

ForbiddenChars == {"/", "\\", ":", "*", "?", "\"", "<", ">", "|"}

\* lines 547-548
sanitize(name) == [k \in 1..Len(name) |->
                      IF name[k] \in ForbiddenChars THEN "_" ELSE name[k]]

\* lines 542-550: the output file's name without the .pdf suffix
base_name(v, stem) == sanitize(IF Truthy(v.FN) THEN v.FN[1] ELSE stem)

\* the directory after writing document doc of file k under the name nm:
\* a file of that name is replaced
write_file(fs, nm, k) == {f \in fs : f.name # nm} \cup {[name |-> nm, src |-> k]}

\* lines 536-557 for the file number done + 1 whose content is t
ConvertFile(t) ==
    LET v == parse_vcard(t)
        stem == FileStems[done + 1] IN
    /\ text' = t
    /\ vcard' = v
    /\ canvas' = build_pdf(v, stem \o DOT_VCF)
    /\ out' = write_file(out, base_name(v, stem), done + 1)
    /\ done' = done + 1

(***************************************************************************)
(* Inputs                                                                  *)
(***************************************************************************)
MaxFiles == 2

MaxBatchLines == 2

MaxLines == 3

MaxParams == 2

MaxPhones == 4

MaxSocials == 1

MaxRenders == 2

MaxOrgLines == 50

MaxEntries == 2

\* physical lines of the files of a batch
BatchPool ==
    { <<"F","N",":","a">>,
      <<"F","N",":","a","/","b">>,
      <<"T","E","L",";","W","O","R","K",":","1">>,
      <<"A","D","R",":",";",";","M","\\",";"," ","A",";","S",";",";","1">>,
      <<"A","D","R",";","H","O","M","E",":",";",";","M",";","S",";",";","1">>,
      <<"X","-","S","O","C","I","A","L","P","R","O","F","I","L","E",";",
        "t","y","p","e","=","l","i","n","k","e","d","i","n",":",
        "h","t","t","p","s",":","/","/","l",".","i","n","/","j","d">>,
      <<"X","-","S","O","C","I","A","L","P","R","O","F","I","L","E",";",
        "t","y","p","e","=","x","i","n","g",":","j","d">> }

BatchTexts == {Join(ls, <<"\n">>) : ls \in SeqsUpTo(BatchPool, MaxBatchLines)}

\* physical lines of the input of one parse
ParsePool ==
    { <<"F","N",":","A">>,
      <<"F","N",":","B">>,
      <<"F","N",":">>,
      <<"O","R","G",":","C",";","D">>,
      <<"O","R","G",":",";","E">>,
      <<"O","R","G",":","F">>,
      <<"T","I","T","L","E",":"," ">>,
      <<"t","i","t","l","e",":","G">>,
      <<"T","I","T","L","E",":","H">>,
      <<" ","i","t","e","m","1",".","U","R","L",":","h","t","t","p",":","/","/","x">>,
      <<"\t","Z">>,
      <<"P","H","O","T","O",":","Q","Q","=","=">>,
      <<"P","H","O","T","O",";","b",":","Q","U","I","=">>,
      <<"P","H","O","T","O",":","Q","Q">>,
      <<"P","H","O","T","O",":">> }

ParseTexts == {Join(ls, <<"\n">>) : ls \in SeqsUpTo(ParsePool, MaxLines)}

\* parameter tokens handed to the classifier
TokenPool ==
    { P_CELL, P_WORK, P_HOME,
      <<"m","a","i","n">>,
      <<"P","R","E","F">>,
      <<"X","I","N","G","-","T","W","I","T","T","E","R">>,
      <<"M","Y","F","A","C","E","B","O","O","K">>,
      P_LINKEDIN }

Kinds == {"TEL", "EMAIL", "ADR", "URL", "SOCIAL", "NOTE"}

Entry(value, ps) == [value |-> value, params |-> ps]

PhonePool == { Entry(<<"1">>, <<P_WORK>>), Entry(<<"2">>, <<P_CELL>>),
               Entry(<<"3">>, <<P_HOME, <<"P","R","E","F">> >>), Entry(<<"4">>, <<>>) }

SocialPool == { Entry(<<"j","d">>, <<>>),
                Entry(<<"x",":"," ","W","w","w",".","y">>, <<<<"P","R","E","F">>>>),
                Entry(<<"j","d">>, <<P_XING>>) }

\* the records handed to build_pdf to render phones and social profiles
RenderRecords ==
    {[EmptyData EXCEPT !.TEL = tel, !.SOCIAL = soc] :
        tel \in SeqsUpTo(PhonePool, MaxPhones), soc \in SeqsUpTo(SocialPool, MaxSocials)}

Repeat(x, n) == [k \in 1..n |-> x]

Cycle(pool, n) == [k \in 1..n |-> pool[((k - 1) % Len(pool)) + 1]]

LayoutSections == {"TEL", "EMAIL", "ADR", "URL", "SOCIAL", "NOTE"}

\* a record with o organization lines, the sections of present with n entries
\* each, and title and department rows as asked
LayoutRecord(o, t, d, present, n) ==
    LET count(sec) == IF sec \in present THEN n ELSE 0 IN
    [EmptyData EXCEPT
        !.ORG = IF o = 0 THEN None ELSE Some(Join(Repeat(<<"O">>, o), <<"\n">>)),
        !.TITLE = IF t THEN Some(<<"T">>) ELSE None,
        !.DEPT = IF d THEN Some(<<"D">>) ELSE None,
        !.TEL = Cycle(<<Entry(<<"1">>, <<P_WORK>>), Entry(<<"2">>, <<>>)>>,
                      count("TEL")),
        !.EMAIL = Cycle(<<Entry(<<"e">>, <<>>), Entry(<<"f">>, <<P_HOME>>)>>,
                        count("EMAIL")),
        !.ADR = Cycle(<<Entry(<<";",";","M",";","S",";",";","1">>, <<>>),
                        Entry(<<";",";","M">>, <<P_WORK>>),
                        Entry(<<"x">>, <<>>)>>, count("ADR")),
        !.URL = Cycle(<<Entry(<<"u">>, <<>>)>>, count("URL")),
        !.SOCIAL = Cycle(<<Entry(<<"j">>, <<P_XING>>), Entry(<<"k">>, <<>>)>>,
                         count("SOCIAL")),
        !.NOTE = Cycle(<< <<"n","\n","m">>, <<"p">> >>, count("NOTE"))]

LayoutRecords ==
    {LayoutRecord(o, t, d, present, n) :
        o \in 0..MaxOrgLines, t \in BOOLEAN, d \in BOOLEAN,
        present \in SUBSET LayoutSections, n \in 1..MaxEntries}

(***************************************************************************)
(* Specifications                                                          *)
(***************************************************************************)
\* main over a directory of files .vcf files and no .pdf file
Init == /\ pc = "main"
        /\ files \in 0..MaxFiles
        /\ text = <<>> /\ vcard = EmptyData /\ canvas = <<>>
        /\ done = 0 /\ out = {}
        /\ params = <<>> /\ kind = "" /\ outcome = ""

\* lines 532-534
MainNoFiles == /\ pc = "main" /\ files = 0
               /\ pc' = "done"
               /\ UNCHANGED <<text, vcard, canvas, files, done, out, params, kind,
                              outcome>>

\* lines 536-557: the next file, whatever its content
MainLoop == /\ pc = "main" /\ done < files
            /\ \E t \in BatchTexts : ConvertFile(t)
            /\ UNCHANGED <<pc, files, params, kind, outcome>>

\* line 559
MainExit == /\ pc = "main" /\ files > 0 /\ done = files
            /\ pc' = "done"
            /\ UNCHANGED <<text, vcard, canvas, files, done, out, params, kind,
                           outcome>>

Next == MainNoFiles \/ MainLoop \/ MainExit

Spec == Init /\ [][Next]_vars

\* parse_vcard on one input text
InitParse == /\ pc = "parse"
             /\ text \in ParseTexts
             /\ vcard = EmptyData /\ canvas = <<>>
             /\ files = 0 /\ done = 0 /\ out = {}
             /\ params = <<>> /\ kind = "" /\ outcome = ""

ParseVcard == /\ pc = "parse"
              /\ vcard' = parse_vcard(text)
              /\ pc' = "parsed"
              /\ UNCHANGED <<text, canvas, files, done, out, params, kind, outcome>>

SpecParse == InitParse /\ [][ParseVcard]_vars

\* classify_from_params on one parameter list
InitClassify == /\ pc = "classify"
                /\ params \in SeqsUpTo(TokenPool, MaxParams)
                /\ kind \in Kinds
                /\ outcome = ""
                /\ text = <<>> /\ vcard = EmptyData /\ canvas = <<>>
                /\ files = 0 /\ done = 0 /\ out = {}

Classify == /\ pc = "classify"
            /\ outcome' = classify_from_params(params, kind)
            /\ pc' = "classified"
            /\ UNCHANGED <<text, vcard, canvas, files, done, out, params, kind>>

SpecClassify == InitClassify /\ [][Classify]_vars

\* build_pdf, called again and again on one record
Render == /\ pc = "render" /\ done < MaxRenders
          /\ canvas' = build_pdf(vcard, <<"a">> \o DOT_VCF)
          /\ done' = done + 1
          /\ UNCHANGED <<pc, text, vcard, files, out, params, kind, outcome>>

InitRender == /\ pc = "render"
              /\ vcard \in RenderRecords
              /\ text = <<>> /\ canvas = <<>>
              /\ files = 0 /\ done = 0 /\ out = {}
              /\ params = <<>> /\ kind = "" /\ outcome = ""

SpecRender == InitRender /\ [][Render]_vars

InitLayout == /\ pc = "render"
              /\ vcard \in LayoutRecords
              /\ text = <<>> /\ canvas = <<>>
              /\ files = 0 /\ done = 0 /\ out = {}
              /\ params = <<>> /\ kind = "" /\ outcome = ""

SpecLayout == InitLayout /\ [][Render]_vars

(***************************************************************************)
(* Properties                                                              *)
(***************************************************************************)
BodyRow(o) == o.op = "drawString" /\ o.row \notin {"title", "footer"}

\* C1: every body row is drawn at an offset of at least the threshold, and a
\* page advance comes directly before a row, which is then drawn at the top
\* offset of the new page.
C1_RowsNotBelowThreshold ==
    \A k \in 1..Len(canvas) :
        /\ BodyRow(canvas[k]) => canvas[k].y >= MinY
        /\ canvas[k].op = "showPage" =>
              /\ k < Len(canvas)
              /\ BodyRow(canvas[k + 1])
              /\ canvas[k + 1].y = TopY

\* the second line of a two-line address is the first row of a new page
C1_Witness ==
    \E k \in 1..Len(canvas) :
        /\ canvas[k].op = "showPage"
        /\ k > 1 /\ canvas[k - 1].row = "adr" /\ canvas[k - 1].y < MinY + Leading
        /\ canvas[k + 1].row = "adr" /\ canvas[k + 1].x = "value"

TelClass(j) == classify_from_params(vcard.TEL[j].params, "TEL")

ExpectedTelLabel(j) ==
    CASE TelClass(j) = "MOBILE" -> "Mobil:"
      [] TelClass(j) = "WORK" ->
            IF \A i \in 1..(j - 1) : TelClass(i) # "WORK" THEN "Zentrale:"
            ELSE "Geschaeftlich:"
      [] TelClass(j) = "HOME" -> "Privat:"
      [] OTHER -> ""

\* what is drawn at the margin of the phone rows: the label, or the value
\* (lit is then empty)
DrawnTelLabels ==
    LET at_margin(o) == o.row = "tel" /\ o.x = "margin"
        rows == SelectSeq(canvas, at_margin) IN
    [j \in 1..Len(rows) |-> rows[j].lit]

\* C3: after every build_pdf call, however many calls came before, the phone
\* rows carry Zentrale for the first WORK phone, Geschaeftlich for every later
\* one, Mobil for MOBILE, Privat for HOME and no label for OTHER, so Zentrale
\* is drawn at most once.
C3_PhoneLabels ==
    done >= 1 =>
        /\ DrawnTelLabels = [j \in 1..Len(vcard.TEL) |-> ExpectedTelLabel(j)]
        /\ Cardinality({j \in 1..Len(DrawnTelLabels) :
                           DrawnTelLabels[j] = "Zentrale:"}) <= 1

C3_Witness ==
    /\ done = 2
    /\ DrawnTelLabels = <<"Zentrale:", "Geschaeftlich:", "Mobil:", "Privat:">>

\* the calls of the value column of the social rows: the handle of each
\* profile, followed by its link when it has one
SocialValueOps ==
    LET in_value(o) == o.row = "social" /\ o.x = "value" IN
    SelectSeq(canvas, in_value)

HandlePos ==
    LET is_handle(k) == SocialValueOps[k].op = "drawString" IN
    SelectSeq(Indices(SocialValueOps), is_handle)

DrawnHandle(j) == SocialValueOps[HandlePos[j]].text

HasLink(j) == /\ HandlePos[j] < Len(SocialValueOps)
              /\ SocialValueOps[HandlePos[j] + 1].op = "linkURL"

LinkTarget(j) == SocialValueOps[HandlePos[j] + 1].text

LooksLikeUrl(handle) ==
    LET h == Lower(Strip(handle)) IN
    StartsWith(h, T_HTTP) \/ StartsWith(h, T_HTTPS) \/ StartsWith(h, T_WWW)

\* C4 as stated: a profile classified OTHER never gets a link.
C4_OtherNeverLinked ==
    done >= 1 =>
        \A j \in 1..Len(vcard.SOCIAL) :
            classify_from_params(vcard.SOCIAL[j].params, "SOCIAL") = "OTHER"
                => ~HasLink(j)

\* C4: a profile classified OTHER whose handle does not begin with http://,
\* https:// or www. gets no link; one whose handle begins with www. is linked
\* to https:// followed by the handle.
C4_OtherLinkedOnlyToUrlHandle ==
    done >= 1 =>
        /\ Len(HandlePos) = Len(vcard.SOCIAL)
        /\ \A j \in 1..Len(vcard.SOCIAL) :
              classify_from_params(vcard.SOCIAL[j].params, "SOCIAL") = "OTHER" =>
                  /\ ~LooksLikeUrl(DrawnHandle(j)) => ~HasLink(j)
                  /\ StartsWith(Lower(Strip(DrawnHandle(j))), T_WWW) =>
                        /\ HasLink(j)
                        /\ LinkTarget(j) = T_HTTPS \o Strip(DrawnHandle(j))

C4_Witness ==
    /\ done >= 1
    /\ \E j \in 1..Len(vcard.SOCIAL) :
          /\ vcard.SOCIAL[j].params = <<>>
          /\ DrawnHandle(j) = <<"j","d">>
          /\ ~HasLink(j)

\* the logical lines of the input that have a colon, as key, parameters and
\* trimmed value
KeyedLines ==
    LET has_colon(line) == IndexOf(line, ":") # 0
        keyed(line) ==
            LET c == IndexOf(line, ":")
                kp == split_key_and_params(SubSeq(line, 1, c - 1)) IN
            [key |-> kp.base, params |-> kp.params,
             value |-> Strip(SubSeq(line, c + 1, Len(line))),
             line |-> line]
        lines == SelectSeq(logical_lines(text), has_colon) IN
    [j \in 1..Len(lines) |-> keyed(lines[j])]

WithKey(key) == LET has_key(l) == l.key = key IN SelectSeq(KeyedLines, has_key)

Differing(ls) == \E i, j \in 1..Len(ls) : ls[i].value # ls[j].value

\* C2 as stated: with two or more FN lines of different values the name is
\* the value of the first one; likewise the title; the organization and the
\* department are those of the first ORG line.
C2_FirstOccurrenceWins ==
    pc = "parsed" =>
        /\ Len(WithKey(K_FN)) >= 2 /\ Differing(WithKey(K_FN))
              => vcard.FN = Some(WithKey(K_FN)[1].value)
        /\ Len(WithKey(K_TITLE)) >= 2 /\ Differing(WithKey(K_TITLE))
              => vcard.TITLE = Some(WithKey(K_TITLE)[1].value)
        /\ Len(WithKey(K_ORG)) >= 2 /\ Differing(WithKey(K_ORG))
              => LET first == set_org(EmptyData, WithKey(K_ORG)[1].value) IN
                 vcard.ORG = first.ORG /\ vcard.DEPT = first.DEPT

\* the physical lines from the first one that is neither blank nor a
\* continuation line
FromFirstProperLine ==
    LET raw == splitlines(text)
        proper(k) == Strip(raw[k]) # <<>> /\ raw[k][1] \notin {" ", "\t"}
        starts == SelectSeq(Indices(raw), proper) IN
    IF starts = <<>> THEN <<>> ELSE SubSeq(raw, starts[1], Len(raw))

\* C6 as stated: continuation lines that have no logical line before them are
\* discarded, the record is the one of the remaining lines.
C6_LeadingContinuationDiscarded ==
    pc = "parsed" => vcard = parse_lines(unfold(FromFirstProperLine))

PhotoValues == LET ls == WithKey(K_PHOTO) IN [j \in 1..Len(ls) |-> ls[j].value]

Decodable == {j \in 1..Len(PhotoValues) : b64decode(PhotoValues[j]).ok}

LastOf(S) == CHOOSE j \in S : \A i \in S : i <= j

\* C7: the photo payload is the decode result of the last PHOTO line that
\* decodes, absent when none does, and the other fields are those of the input
\* without its PHOTO lines.
C7_LastDecodablePhotoWins ==
    pc = "parsed" =>
        /\ vcard.PHOTO = IF Decodable = {} THEN None
                         ELSE Some(b64decode(PhotoValues[LastOf(Decodable)]).bytes)
        /\ LET no_photo(line) ==
                   \/ IndexOf(line, ":") = 0
                   \/ split_key_and_params(
                          SubSeq(line, 1, IndexOf(line, ":") - 1)).base # K_PHOTO IN
           [vcard EXCEPT !.PHOTO = None]
               = parse_lines(SelectSeq(logical_lines(text), no_photo))

\* a PHOTO line that does not decode after one that does, and a name after it
C7_Witness ==
    /\ pc = "parsed"
    /\ Len(PhotoValues) >= 2
    /\ 1 \in Decodable
    /\ Len(PhotoValues) \notin Decodable
    /\ vcard.PHOTO = Some(<<65>>)
    /\ KeyedLines[Len(KeyedLines)].key = K_FN
    /\ vcard.FN = Some(<<"A">>)

Tokens == {Upper(params[k]) : k \in 1..Len(params)}

\* the rules of the classifier over the set of tokens, in priority order
PriorityOutcome ==
    LET some_in(names) == Tokens \cap names # {}
        some_has(name) == \E t \in Tokens : Contains(t, name) IN
    CASE kind = "TEL" ->
            IF some_in({P_CELL, P_MOBILE, P_IPHONE}) THEN "MOBILE"
            ELSE IF some_in({P_MAIN, P_WORK, P_BUSINESS}) THEN "WORK"
            ELSE IF some_in({P_HOME, P_PRIVATE}) THEN "HOME"
            ELSE "OTHER"
      [] kind \in {"EMAIL", "ADR", "URL"} ->
            IF some_in({P_WORK, P_BUSINESS}) THEN "WORK"
            ELSE IF some_in({P_HOME, P_PRIVATE}) THEN "HOME"
            ELSE "OTHER"
      [] kind = "SOCIAL" ->
            IF some_has(P_FACEBOOK) THEN "FACEBOOK"
            ELSE IF some_has(P_XING) THEN "XING"
            ELSE IF some_has(P_LINKEDIN) THEN "LINKEDIN"
            ELSE IF some_has(P_INSTAGRAM) THEN "INSTAGRAM"
            ELSE IF some_has(P_TWITTER) THEN "TWITTER"
            ELSE "OTHER"
      [] OTHER -> "OTHER"

Outcomes ==
    CASE kind = "TEL" -> {"MOBILE", "WORK", "HOME", "OTHER"}
      [] kind \in {"EMAIL", "ADR", "URL"} -> {"WORK", "HOME", "OTHER"}
      [] kind = "SOCIAL" -> {"FACEBOOK", "XING", "LINKEDIN", "INSTAGRAM", "TWITTER",
                             "OTHER"}
      [] OTHER -> {"OTHER"}

\* the parameter lists with the same tokens as params, in any order and with
\* any repetition, up to one token longer
Rearrangements ==
    LET S == {params[k] : k \in 1..Len(params)} IN
    {q \in SeqsUpTo(S, Len(params) + 1) : {q[k] : k \in 1..Len(q)} = S}

\* C8: the outcome is the first rule of the priority order that some token
\* matches, it is a member of the enum of the kind, and every rearrangement of
\* the parameters has the same outcome.
C8_ClassifyByPriority ==
    pc = "classified" =>
        /\ outcome = PriorityOutcome
        /\ outcome \in Outcomes
        /\ \A q \in Rearrangements : classify_from_params(q, kind) = outcome

\* a HOME token before a CELL token: the later token decides
C8_Witness ==
    /\ pc = "classified"
    /\ kind = "TEL"
    /\ Len(params) >= 2 /\ params[1] = P_HOME /\ params[2] = P_CELL
    /\ outcome = "MOBILE"

\* C5 as stated: when the batch is over there are as many documents as input
\* files, one written for each file.
C5_OneDocumentPerFile ==
    pc = "done" =>
        /\ Cardinality(out) = files
        /\ \A k \in 1..files : \E f \in out : f.src = k

\* C9 as stated: a profile of a classified network whose value is a full URL
\* is linked to exactly that URL.
C9_FullUrlLinkedUnchanged ==
    done >= 1 =>
        LET socials == WithKey(K_SOCIAL) IN
        \A j \in 1..Len(socials) :
            /\ classify_from_params(socials[j].params, "SOCIAL") # "OTHER"
            /\ \/ StartsWith(socials[j].value, T_HTTP)
               \/ StartsWith(socials[j].value, T_HTTPS)
            => HasLink(j) /\ LinkTarget(j) = socials[j].value

\* the value of an ADR line split at the semicolons that are not escaped,
\* each component unescaped
Components(value) ==
    LET is_sep(k) == value[k] = ";" /\ (k = 1 \/ value[k - 1] # "\\")
        seps == SelectSeq(Indices(value), is_sep)
        from(j) == IF j = 1 THEN 1 ELSE seps[j - 1] + 1
        to(j) == IF j = Len(seps) + 1 THEN Len(value) ELSE seps[j] - 1 IN
    [j \in 1..(Len(seps) + 1) |-> unescape(SubSeq(value, from(j), to(j)))]

SourceAdrLines(value) ==
    LET parts == Components(value)
        part(k) == IF Len(parts) >= k THEN Strip(parts[k]) ELSE <<>>
        line1 == part(3)
        line2 == Strip(part(6) \o <<" ">> \o part(4)) IN
    (IF line1 # <<>> THEN <<line1>> ELSE <<>>)
        \o (IF line2 # <<>> THEN <<line2>> ELSE <<>>)

DrawnAdrLines ==
    LET adr_value(o) == o.row = "adr" /\ o.x = "value"
        rows == SelectSeq(canvas, adr_value) IN
    [j \in 1..Len(rows) |-> rows[j].text]

\* C10 as stated: the address rows show the 3rd component, and the 6th and
\* 4th component, of the source value, an escaped semicolon being text of its
\* component.
C10_AddressFromSourceComponents ==
    done >= 1 =>
        LET adrs == WithKey(K_ADR)
            add(acc, l) == acc \o SourceAdrLines(l.value) IN
        DrawnAdrLines = Fold(add, <<>>, adrs)

====
